---- MODULE Spec2Model ----
(***************************************************************************)
(* SIP signalling of the voipbin sandbox: the softphone agent              *)
(* (scripts/softphone.py: register(), run(), _handle_invite, _handle_bye,  *)
(* _handle_options) and the call-test driver (scripts/test_call.py:        *)
(* main()).  One behaviour of Spec is one run of one of the two programs.  *)
(*                                                                         *)
(* Text is modelled by what the code does with it: a header line is a      *)
(* record [name, val] whose name is the text up to and including the       *)
(* colon and whose val is the rest of the line as a sequence of tokens, so *)
(* that substring tests, rstrip and appends act on tokens.  MD5 is an      *)
(* uninterpreted hash.  random.randint is a choice from 1..MaxRand.        *)
(***************************************************************************)
EXTENDS Integers, Sequences, FiniteSets, TLC

VARIABLES
    proc,           \* which program this run is: "softphone" or "test_call"
    pc,             \* control point of the program
    tag,            \* self.tag (softphone) / tag (test_call): the From tag
    call_id,        \* call_id local of register() / main()
    branch,         \* branch local of register() / main()
    cseq,           \* cseq local of register() / main()
    to_tag,         \* to_tag local of main()
    attempt,        \* number of iterations of main()'s response loop begun
    result,         \* return value of register() / main(): "None", "True", "False", "raised"
    out,            \* the request most recently handed to sendto, in full
    sent,           \* summaries of the requests handed to sendto, in send order
    rx,             \* what recvfrom returned (a datagram or Timeout): every receive of
                    \* register(), the last receive of main() and of run()'s loop
                    \* (out, sent and rx are kept for one register() call, one
                    \* iteration of run()'s loop, or one run of main())
    branch_calls,   \* number of generate_branch calls of this register() call / run
    running,        \* self.running
    registered,     \* self.registered
    call_id_counter,\* self.call_id_counter
    timeout,        \* the timeout set on self.sock, in seconds
    auto_answer,    \* run()'s auto_answer argument
    reg_ret,        \* where run() goes on when register() returns
    hdl,            \* locals of _handle_invite while it sleeps between 180 and 200
    reg_call_id,    \* history: the Call-ID of the first REGISTER of this softphone
    elapsed,        \* time.time() - last_register in half seconds, or NoClock in
                    \* the runs where time is not followed
    replies         \* responses sent for the request in rx, in send order

dialogVars == <<tag, call_id, branch, cseq, result, out, sent, rx, branch_calls>>
driverVars == <<to_tag, attempt>>
phoneVars == <<running, registered, call_id_counter, timeout, auto_answer, reg_ret, hdl,
               reg_call_id, elapsed, replies>>
vars == <<proc, pc, dialogVars, driverVars, phoneVars>>

(***************************************************************************)
(* Bounds of the model.                                                    *)
(***************************************************************************)
MaxRand == 2        \* random.randint draws range over 1..MaxRand
MaxResend == 2      \* usable challenges the proxy issues in one run of test_call
MaxRegisters == 2   \* register() calls in one run of the softphone

(***************************************************************************)
(* Program constants.                                                      *)
(***************************************************************************)
max_attempts == 20
NoCode == 0 - 1     \* get_response_code returning None

None == "None"      \* Python's None where a string is expected; str(None)

\* The values random.randint returns are only ever compared for equality, so
\* the first value a run draws is named 1; every later draw is any value.
Rand == 1..MaxRand
FirstDraw == {1}

(***************************************************************************)
(* Datagrams.  kind says what the first line looks like: "response" when   *)
(* it matches SIP/2.0 <digits> (code holds the digits), "request" when it  *)
(* starts with a method name, "junk" otherwise.                            *)
(***************************************************************************)
Line(n, v) == [name |-> n, val |-> v]
Response(c, ls) == [kind |-> "response", code |-> c, method |-> None, lines |-> ls]
Request(m, ls) == [kind |-> "request", code |-> 0, method |-> m, lines |-> ls]
Junk == [kind |-> "junk", code |-> 0, method |-> None, lines |-> <<>>]
Timeout == [kind |-> "timeout", code |-> 0, method |-> None, lines |-> <<>>]

\* The first token after the first occurrence of key that has a token after
\* it: re.search(key + '"([^"]+)"', line).group(1); None when nothing matches.
ParamAfter(val, key) ==
    LET hits == {i \in 1..(Len(val) - 1) : val[i] = key}
    IN  IF hits = {} THEN None
        ELSE val[(CHOOSE i \in hits : \A j \in hits : i <= j) + 1]

NoAuthInfo == [realm |-> None, nonce |-> None, qop |-> None]

IsAuthenticate(line) ==
    line.name = "WWW-Authenticate:" \/ line.name = "Proxy-Authenticate:"

RECURSIVE ParseAuthFrom(_, _, _)
ParseAuthFrom(lines, i, auth_info) ==
    IF i > Len(lines) THEN auth_info
    ELSE LET line == lines[i]
             realm == ParamAfter(line.val, "realm=")
             nonce == ParamAfter(line.val, "nonce=")
             qop == ParamAfter(line.val, "qop=")
             next == IF IsAuthenticate(line)
                     THEN [realm |-> IF realm # None THEN realm ELSE auth_info.realm,
                           nonce |-> IF nonce # None THEN nonce ELSE auth_info.nonce,
                           qop |-> IF qop # None THEN qop ELSE auth_info.qop]
                     ELSE auth_info
         IN  ParseAuthFrom(lines, i + 1, next)

parse_auth_challenge(response) == ParseAuthFrom(response.lines, 1, NoAuthInfo)

get_response_code(response) ==
    IF response.kind = "response" THEN response.code ELSE NoCode

\* re.search(r'To:.*?;tag=([^\s;>]+)', response): the leftmost To: line that
\* has a tag.
get_to_tag(response) ==
    LET hits == {i \in 1..Len(response.lines) :
                    /\ response.lines[i].name = "To:"
                    /\ ParamAfter(response.lines[i].val, ";tag=") # None}
    IN  IF hits = {} THEN None
        ELSE ParamAfter(response.lines[CHOOSE i \in hits : \A j \in hits : i <= j].val,
                        ";tag=")

MD5(text) == <<"md5", text>>

calculate_digest_response(username, realm, password, method, uri, nonce, nc, cnonce, qop) ==
    LET ha1 == MD5(<<username, realm, password>>)
        ha2 == MD5(<<method, uri>>)
    IN  IF qop # None
        THEN MD5(<<ha1, nonce, nc, cnonce, qop, ha2>>)
        ELSE MD5(<<ha1, nonce, ha2>>)

generate_branch(r) == "z9hG4bK" \o ToString(r)
generate_tag(r) == ToString(r)
generate_call_id(r) == ToString(r) \o "@SIP_SERVER"

NoAuth == [name |-> None, username |-> None, realm |-> None, nonce |-> None,
           uri |-> None, response |-> <<>>, algorithm |-> None,
           qop |-> None, nc |-> None, cnonce |-> None]

DriverAuthHeaderPlain(code, auth_info, uri, digest, nc, cnonce) ==
    [name |-> "Authorization:",
     username |-> "CALLER_EXT",
     realm |-> auth_info.realm,
     nonce |-> auth_info.nonce,
     uri |-> uri,
     response |-> digest,
     algorithm |-> "MD5",
     qop |-> IF auth_info.qop # None THEN auth_info.qop ELSE None,
     nc |-> IF auth_info.qop # None THEN nc ELSE None,
     cnonce |-> IF auth_info.qop # None THEN cnonce ELSE None]

\* auth_header as main() assembles it, test_call.py:169-181.
DriverAuthHeader(code, auth_info, uri, digest, nc, cnonce) ==
    [name |-> IF code = 407 THEN "Proxy-Authorization:" ELSE "Authorization:",
     username |-> "CALLER_EXT",
     realm |-> auth_info.realm,
     nonce |-> auth_info.nonce,
     uri |-> uri,
     response |-> digest,
     algorithm |-> "MD5",
     qop |-> IF auth_info.qop # None THEN auth_info.qop ELSE None,
     nc |-> IF auth_info.qop # None THEN nc ELSE None,
     cnonce |-> IF auth_info.qop # None THEN cnonce ELSE None]

sdp == <<"v=0", "o=", "s=", "c=", "t=", "m=", "a=rtpmap:0", "a=rtpmap:8", "a=sendrecv">>

MsgNoLength(method, uri, br, gen, from_tag, totag, cid, n, auth, body) ==
    [method |-> method, uri |-> uri, branch |-> br, branch_gen |-> gen,
     from_tag |-> from_tag, to_tag |-> totag, call_id |-> cid, cseq |-> n,
     auth |-> auth, content_length |-> 0, body |-> body]

Msg(method, uri, br, gen, from_tag, totag, cid, n, auth, body) ==
    [method |-> method, uri |-> uri, branch |-> br, branch_gen |-> gen,
     from_tag |-> from_tag, to_tag |-> totag, call_id |-> cid, cseq |-> n,
     auth |-> auth, content_length |-> Len(body), body |-> body]

NoMsg == Msg(None, None, None, 0, None, None, None, 0, NoAuth, <<>>)

Summary(m) ==
    [method |-> m.method, cseq |-> m.cseq, call_id |-> m.call_id,
     from_tag |-> m.from_tag, to_tag |-> m.to_tag, auth_name |-> m.auth.name]

\* sock.sendto(m.encode(), (SIP_SERVER, SIP_PORT))
SendTo(m) ==
    /\ out' = m
    /\ sent' = Append(sent, Summary(m))

CalleeURI == "sip:CALLEE_EXT@DOMAIN"

DriverInviteNewCallId(br, gen, from_tag, cid, n, auth) ==
    Msg("INVITE", CalleeURI, br, gen, from_tag, None, generate_call_id(gen), n, auth, sdp)

\* The INVITE text of lines 112-125 and 187-201.
DriverInvite(br, gen, from_tag, cid, n, auth) ==
    Msg("INVITE", CalleeURI, br, gen, from_tag, None, cid, n, auth, sdp)

DriverAckNextCSeq(br, gen, from_tag, totag, cid, n) ==
    Msg("ACK", CalleeURI, br, gen, from_tag, totag, cid, n + 1, NoAuth, <<>>)

\* The ACK text of lines 211-221.
DriverAck(br, gen, from_tag, totag, cid, n) ==
    Msg("ACK", CalleeURI, br, gen, from_tag, totag, cid, n, NoAuth, <<>>)

ByeRequestSameCSeq(br, gen, from_tag, totag, cid, n) ==
    Msg("BYE", CalleeURI, br, gen, from_tag, totag, cid, n, NoAuth, <<>>)

\* The BYE text of lines 234-244.
ByeRequest(br, gen, from_tag, totag, cid, n) ==
    Msg("BYE", CalleeURI, br, gen, from_tag, totag, cid, n + 1, NoAuth, <<>>)

KeepCSeq(n) == n

\* cseq += 1, line 183.
IncrementCSeq(n) == n + 1

Invites == {i \in 1..Len(sent) : sent[i].method = "INVITE"}

(***************************************************************************)
(* Datagrams the proxy may deliver to the call-test driver.                *)
(***************************************************************************)
AuthLines ==
    { <<>>,
      <<Line("WWW-Authenticate:", <<"Digest", "realm=", "r1", "nonce=", "n1">>)>>,
      <<Line("Proxy-Authenticate:", <<"Digest", "realm=", "r1", "nonce=", "n1",
                                      "qop=", "auth", ",", "auth-int">>)>>,
      <<Line("WWW-Authenticate:", <<"Digest", "realm=", "r1">>)>>,
      <<Line("WWW-Authenticate:", <<"Digest", "nonce=", "n1">>)>> }

ToLines ==
    { <<Line("To:", <<"<sip:CALLEE_EXT@DOMAIN>">>)>>,
      <<Line("To:", <<"<sip:CALLEE_EXT@DOMAIN>", ";tag=", "t1">>)>> }

\* A 200 that answers a request of another dialog.
ForeignOk ==
    Response(200, <<Line("To:", <<"<sip:OTHER@DOMAIN>", ";tag=", "t9">>),
                    Line("Call-ID:", <<" ", "other-call">>),
                    Line("CSeq:", <<" ", "9", " ", "INVITE">>)>>)

DriverDatagrams ==
    {Timeout, Junk, ForeignOk}
    \cup {Response(c, <<>>) : c \in {100, 180, 183, 302, 403}}
    \cup {Response(c, ls) : c \in {401, 407}, ls \in AuthLines}
    \cup {Response(200, ls) : ls \in ToLines}

ByeDatagrams == {Timeout, Response(200, <<>>), Response(481, <<>>)}

(***************************************************************************)
(* scripts/test_call.py main()                                             *)
(***************************************************************************)
\* Lines 92-127: the identifiers are generated and the first INVITE is sent.
DriverStart ==
    /\ proc = "test_call" /\ pc = "start"
    /\ \E rb \in FirstDraw, rt \in FirstDraw, rc \in FirstDraw :
          /\ branch' = generate_branch(rb)
          /\ tag' = generate_tag(rt)
          /\ call_id' = generate_call_id(rc)
          /\ SendTo(DriverInvite(generate_branch(rb), 1, generate_tag(rt),
                                 generate_call_id(rc), 1, NoAuth))
    /\ branch_calls' = 1
    /\ cseq' = 1
    /\ pc' = "loop"
    /\ UNCHANGED <<proc, to_tag, attempt, result, rx>>
    /\ UNCHANGED phoneVars

ReturnFalseContinue ==
    /\ pc' = IF attempt + 1 >= max_attempts THEN "done" ELSE "loop"
    /\ result' = IF attempt + 1 >= max_attempts THEN "False" ELSE result

\* Lines 261-263: a status >= 400 ends main() with False.
ReturnFalse ==
    /\ pc' = "done"
    /\ result' = "False"

ContinueOneMore ==
    /\ pc' = IF attempt + 1 > max_attempts THEN "done" ELSE "loop"
    /\ result' = IF attempt + 1 > max_attempts THEN "False" ELSE result

\* The for loop runs out after this iteration: "Test incomplete", return False.
Continue ==
    /\ pc' = IF attempt + 1 >= max_attempts THEN "done" ELSE "loop"
    /\ result' = IF attempt + 1 >= max_attempts THEN "False" ELSE result

\* Lines 153-202: a 401/407 with a nonce makes main() resend the INVITE.
Resend(code, auth_info) ==
    \E rb \in Rand, rc \in Rand :
    LET uri == CalleeURI
        cnonce == generate_tag(rc)
        nc == "00000001"
        digest == calculate_digest_response("CALLER_EXT", auth_info.realm, "CALLER_PASS",
                                            "INVITE", uri, auth_info.nonce, nc, cnonce,
                                            auth_info.qop)
        auth_header == DriverAuthHeader(code, auth_info, uri, digest, nc, cnonce)
    IN  /\ cseq' = IncrementCSeq(cseq)
        /\ branch' = generate_branch(rb)
        /\ branch_calls' = branch_calls + 1
        /\ SendTo(DriverInvite(generate_branch(rb), branch_calls + 1, tag, call_id,
                               IncrementCSeq(cseq), auth_header))

\* Lines 205-223: a 200 is answered with the ACK.
Answer(response) ==
    \E rb \in Rand :
    /\ to_tag' = get_to_tag(response)
    /\ branch_calls' = branch_calls + 1
    /\ SendTo(DriverAck(generate_branch(rb), branch_calls + 1, tag, get_to_tag(response),
                        call_id, cseq))
    /\ pc' = "hold"

\* One iteration of the response loop, lines 132-267.
DriverRecv ==
    /\ proc = "test_call" /\ pc = "loop" /\ attempt < max_attempts
    /\ \E response \in DriverDatagrams :
        LET code == get_response_code(response)
            auth_info == parse_auth_challenge(response)
        IN
        /\ rx' = <<response>>
        /\ attempt' = attempt + 1
        /\ IF response = Timeout \/ code = NoCode \/ code = 0
           THEN Continue /\ UNCHANGED <<branch, cseq, to_tag, out, sent, branch_calls>>
           ELSE IF code \in {100, 180, 183}
           THEN Continue /\ UNCHANGED <<branch, cseq, to_tag, out, sent, branch_calls>>
           ELSE IF code = 401 \/ code = 407
           THEN IF auth_info.nonce # None
                THEN IF auth_info.realm = None
                     \* auth_info['realm'] raises KeyError, caught at line 272
                     THEN /\ pc' = "done" /\ result' = "False"
                          /\ UNCHANGED <<branch, cseq, to_tag, out, sent, branch_calls>>
                     ELSE /\ Cardinality(Invites) <= MaxResend
                          /\ Resend(code, auth_info)
                          /\ Continue /\ UNCHANGED to_tag
                ELSE Continue /\ UNCHANGED <<branch, cseq, to_tag, out, sent, branch_calls>>
           ELSE IF code = 200
           THEN Answer(response) /\ UNCHANGED <<branch, cseq, result>>
           ELSE IF code >= 400
           THEN /\ ReturnFalse
                /\ UNCHANGED <<branch, cseq, to_tag, out, sent, branch_calls>>
           ELSE Continue /\ UNCHANGED <<branch, cseq, to_tag, out, sent, branch_calls>>
    /\ UNCHANGED <<proc, tag, call_id>>
    /\ UNCHANGED phoneVars

\* Lines 229-246: after the 3 second hold the BYE is sent.
DriverBye ==
    /\ proc = "test_call" /\ pc = "hold"
    /\ \E rb \in Rand :
          SendTo(ByeRequest(generate_branch(rb), branch_calls + 1, tag, to_tag, call_id,
                            cseq))
    /\ branch_calls' = branch_calls + 1
    /\ pc' = "bye_wait"
    /\ UNCHANGED <<proc, tag, call_id, branch, cseq, to_tag, attempt, result, rx>>
    /\ UNCHANGED phoneVars

DriverByeRecvNoReturn ==
    /\ proc = "test_call" /\ pc = "bye_wait"
    /\ \E response \in ByeDatagrams : rx' = <<response>>
    /\ result' = "True"
    /\ pc' = "loop"
    /\ UNCHANGED <<proc, tag, call_id, branch, cseq, to_tag, attempt, out, sent, branch_calls>>
    /\ UNCHANGED phoneVars

\* Lines 248-259: one wait for the answer to the BYE; anything ends the test.
DriverByeRecv ==
    /\ proc = "test_call" /\ pc = "bye_wait"
    /\ \E response \in ByeDatagrams : rx' = <<response>>
    /\ result' = "True"
    /\ pc' = "done"
    /\ UNCHANGED <<proc, tag, call_id, branch, cseq, to_tag, attempt, out, sent, branch_calls>>
    /\ UNCHANGED phoneVars

ExitCodeSwapped == IF result = "True" THEN 1 ELSE 0

\* Lines 280-282: sys.exit(0 if success else 1).
ExitCode == IF result = "True" THEN 0 ELSE 1

(***************************************************************************)
(* scripts/softphone.py                                                    *)
(***************************************************************************)
Domain == "sip:CUSTOMER_ID.registrar.localhost"

_generate_branch(r) == "z9hG4bK" \o ToString(r)
_generate_tag(r) == ToString(r)
_generate_call_id(counter, r) == ToString(counter) \o "_" \o ToString(r) \o "@local_ip"

_calculate_digestLegacy(username, realm, password, method, uri, nonce, nc, cnonce, qop) ==
    LET ha1 == MD5(<<username, realm, password>>)
        ha2 == MD5(<<method, uri>>)
    IN  MD5(<<ha1, nonce, ha2>>)

_calculate_digest(username, realm, password, method, uri, nonce, nc, cnonce, qop) ==
    LET ha1 == MD5(<<username, realm, password>>)
        ha2 == MD5(<<method, uri>>)
    IN  IF qop # None
        THEN MD5(<<ha1, nonce, nc, cnonce, qop, ha2>>)
        ELSE MD5(<<ha1, nonce, ha2>>)

_parse_auth(response) == ParseAuthFrom(response.lines, 1, NoAuthInfo)

_get_response_code(response) ==
    IF response.kind = "response" THEN response.code ELSE NoCode

\* auth_header as register() assembles it, softphone.py:114-123.
RegisterAuthHeader(auth_info, uri, digest, nc, cnonce) ==
    [name |-> "Authorization:",
     username |-> "extension",
     realm |-> auth_info.realm,
     nonce |-> auth_info.nonce,
     uri |-> uri,
     response |-> digest,
     algorithm |-> "MD5",
     qop |-> IF auth_info.qop # None THEN auth_info.qop ELSE None,
     nc |-> IF auth_info.qop # None THEN nc ELSE None,
     cnonce |-> IF auth_info.qop # None THEN cnonce ELSE None]

\* Header lines of the requests the softphone may receive.
Via1 == Line("Via:", <<" ", "SIP/2.0/UDP proxy1">>)
Via2 == Line("Via:", <<" ", "SIP/2.0/UDP proxy2">>)
From1 == Line("From:", <<" ", "<sip:a@d>", ";tag=", "f1">>)
From2 == Line("From:", <<" ", "<sip:b@d>", ";tag=", "f2">>)
To1 == Line("To:", <<" ", "<sip:x@d>">>)
To1Space == Line("To:", <<" ", "<sip:x@d>", " ">>)
To1Tagged == Line("To:", <<" ", "<sip:x@d>", ";tag=", "t7">>)
CallId1 == Line("Call-ID:", <<" ", "c1">>)
CallId2 == Line("Call-ID:", <<" ", "c2">>)
CSeq1 == Line("CSeq:", <<" ", "1", " ", "INVITE">>)
Contact1 == Line("Contact:", <<" ", "<sip:a@host>">>)
MaxForwards == Line("Max-Forwards:", <<" ", "70">>)

\* Datagrams that may arrive while register() waits.
\* Time is not followed in this run: run()'s test of the interval may go
\* either way.
NoClock == 0 - 1

\* The clock counts half seconds: the shortest wait of the code is the
\* sleep(0.5) of _handle_invite.
Ticks(seconds) == 2 * seconds

\* run(), line 166.
register_interval == 240

\* register(), lines 91 and 137: the Expires header of every REGISTER.
Expires == 300

IntervalPassedLate == elapsed > Ticks(Expires)

\* run(), line 170: time.time() - last_register > register_interval.
IntervalPassed == elapsed > Ticks(register_interval)

\* d half seconds pass.
Elapse(d) == elapsed' = IF elapsed = NoClock THEN NoClock ELSE elapsed + d

RegisterDatagrams ==
    {Timeout, Junk,
     Request("INVITE", <<Via1, From1, To1, CallId1, CSeq1, Contact1>>),
     Request("OPTIONS", <<Via1, From1, To1, CallId1, CSeq1>>),
     ForeignOk}
    \cup {Response(c, <<>>) : c \in {100, 200, 403, 407}}
    \cup {Response(401, ls) : ls \in AuthLines}

\* register(), lines 79-96: a branch and a Call-ID are generated and the
\* REGISTER is sent without credentials.
RegisterBegin(ret) ==
    \E rb \in (IF call_id_counter = 0 THEN FirstDraw ELSE Rand),
       rc \in (IF call_id_counter = 0 THEN FirstDraw ELSE Rand) :
    LET cid == _generate_call_id(call_id_counter + 1, rc)
        m == Msg("REGISTER", Domain, _generate_branch(rb), 1, tag, None, cid, 1, NoAuth, <<>>)
    IN  /\ branch' = _generate_branch(rb)
        /\ branch_calls' = 1
        /\ call_id_counter' = call_id_counter + 1
        /\ call_id' = cid
        /\ reg_call_id' = IF call_id_counter = 0 THEN cid ELSE reg_call_id
        /\ cseq' = 1
        /\ out' = m
        /\ sent' = <<Summary(m)>>
        /\ rx' = <<>>
        /\ replies' = <<>>
        /\ result' = "None"
        /\ reg_ret' = ret
        /\ pc' = "reg_wait1"

\* register() returns value to run(), which ignores it; its locals are gone.
RegisterReturn(value) ==
    /\ result' = value
    /\ registered' = IF value = "True" THEN TRUE ELSE registered
    /\ branch' = None /\ call_id' = None /\ cseq' = 0 /\ branch_calls' = 0
    /\ pc' = reg_ret
    /\ reg_ret' = None
    \* run(), lines 165 and 172: last_register = time.time()
    /\ elapsed' = IF elapsed = NoClock THEN NoClock ELSE 0

RegisterTimedOutRaise ==
    /\ pc' = "crashed" /\ result' = "raised"
    /\ UNCHANGED <<branch, call_id, cseq, branch_calls, registered, reg_ret, elapsed>>

\* Lines 154-156: except socket.timeout: return False.
RegisterTimedOut == RegisterReturn("False")

RegisterFinishLax(code) ==
    RegisterReturn(IF code < 300 THEN "True" ELSE "False")

\* Lines 146-152.
RegisterFinish(code) ==
    RegisterReturn(IF code = 200 THEN "True" ELSE "False")

\* Lines 104-141: the REGISTER is sent again with credentials.
RegisterResend(auth_info) ==
    \E rb \in Rand, rc \in Rand :
    LET cnonce == _generate_tag(rc)
        nc == "00000001"
        uri == Domain
        digest == _calculate_digest("extension", auth_info.realm, "password", "REGISTER",
                                    uri, auth_info.nonce, nc, cnonce, auth_info.qop)
        auth_header == RegisterAuthHeader(auth_info, uri, digest, nc, cnonce)
    IN  /\ cseq' = cseq + 1
        /\ branch' = _generate_branch(rb)
        /\ branch_calls' = branch_calls + 1
        /\ SendTo(Msg("REGISTER", Domain, _generate_branch(rb), branch_calls + 1, tag, None,
                      call_id, cseq + 1, auth_header, <<>>))
        /\ UNCHANGED <<call_id, elapsed>>
        /\ pc' = "reg_wait2"

\* run(), lines 163-170: the initial registration.  last_register is set when
\* it returns, so the loop's first test of the interval fails and run() goes
\* on to its first receive.
RunStart ==
    /\ proc = "softphone" /\ pc = "run"
    /\ RegisterBegin("listen")
    /\ UNCHANGED <<proc, tag, driverVars>>
    /\ UNCHANGED <<running, registered, timeout, auto_answer, hdl, elapsed>>

\* run(), lines 168-171: more than register_interval seconds have passed.
Reregister ==
    /\ proc = "softphone" /\ pc = "loop" /\ running
    /\ elapsed = NoClock \/ IntervalPassed
    /\ call_id_counter < MaxRegisters
    /\ RegisterBegin("listen")
    /\ UNCHANGED <<proc, tag, driverVars>>
    /\ UNCHANGED <<running, registered, timeout, auto_answer, hdl, elapsed>>

\* register(), lines 98-141 and 146-156: the wait for the first response.
RegisterRecv1 ==
    /\ proc = "softphone" /\ pc = "reg_wait1" /\ running
    /\ \E response \in RegisterDatagrams :
        LET code == _get_response_code(response)
            auth_info == _parse_auth(response)
        IN
        /\ rx' = Append(rx, response)
        /\ IF response = Timeout
           THEN RegisterTimedOut /\ UNCHANGED <<out, sent>>
           ELSE IF code = 401 /\ auth_info.nonce # None
           THEN IF auth_info.realm = None
                \* auth_info['realm'] raises KeyError: nothing catches it
                THEN /\ pc' = "crashed" /\ result' = "raised"
                     /\ UNCHANGED <<branch, call_id, cseq, out, sent, branch_calls,
                                    registered, reg_ret, elapsed>>
                ELSE RegisterResend(auth_info) /\ UNCHANGED <<result, registered, reg_ret>>
           ELSE RegisterFinish(code) /\ UNCHANGED <<out, sent>>
    /\ UNCHANGED <<proc, tag, driverVars>>
    /\ UNCHANGED <<running, call_id_counter, timeout, auto_answer, hdl, reg_call_id,
                   replies>>

\* register(), lines 142-156: the wait for the response to the second REGISTER.
RegisterRecv2 ==
    /\ proc = "softphone" /\ pc = "reg_wait2" /\ running
    /\ \E response \in RegisterDatagrams :
        /\ rx' = Append(rx, response)
        /\ IF response = Timeout
           THEN RegisterTimedOut
           ELSE RegisterFinish(_get_response_code(response))
    /\ UNCHANGED <<proc, tag, out, sent, driverVars>>
    /\ UNCHANGED <<running, call_id_counter, timeout, auto_answer, hdl, reg_call_id,
                   replies>>

(***************************************************************************)
(* Requests the softphone's loop may receive.                              *)
(***************************************************************************)
ViaLists == {<<>>, <<Via1>>, <<Via1, Via2>>, <<Via2, Via1>>}
FromLists == {<<>>, <<From1>>, <<From1, From2>>}
ToLists == {<<>>, <<To1>>, <<To1Space>>, <<To1Tagged>>, <<To1, To1Tagged>>}
CallIdLists == {<<>>, <<CallId1>>, <<CallId1, CallId2>>}
RestLists == {<<>>, <<CSeq1, Contact1, MaxForwards>>}

\* INVITEs: every Via list with every To list, and every From, Call-ID and
\* rest list with each other.
InviteLines ==
    {v \o <<From1>> \o t \o <<CallId1, CSeq1, Contact1, MaxForwards>> :
        v \in ViaLists, t \in ToLists}
    \cup {<<Via1, Via2>> \o f \o <<To1>> \o c \o r :
        f \in FromLists, c \in CallIdLists, r \in RestLists}

\* BYEs and OPTIONS: every Via list, and each header missing or repeated.
OtherLines ==
    {v \o <<From1, To1Tagged, CallId1, CSeq1>> : v \in ViaLists}
    \cup {<<Via1, Via2>> \o f \o <<To1Tagged, CallId1, CSeq1>> : f \in FromLists}
    \cup {<<Via1, Via2, From1>> \o t \o <<CallId1, CSeq1>> : t \in ToLists}
    \cup {<<Via1, Via2, From1, To1Tagged>> \o c \o r : c \in CallIdLists, r \in RestLists}

PhoneDatagrams ==
    {Timeout, Junk, Response(200, <<>>), Request("ACK", <<Via1, From1, To1Tagged, CallId1>>)}
    \cup {Request("INVITE", ls) : ls \in InviteLines}
    \cup {Request(m, ls) : m \in {"BYE", "OPTIONS"}, ls \in OtherLines}

IsSpace(tok) == tok = " "

RECURSIVE RStrip(_)
RStrip(val) ==
    IF val # <<>> /\ IsSpace(val[Len(val)]) THEN RStrip(SubSeq(val, 1, Len(val) - 1))
    ELSE val

RECURSIVE LStrip(_)
LStrip(val) ==
    IF val # <<>> /\ IsSpace(val[1]) THEN LStrip(Tail(val)) ELSE val

Strip(val) == LStrip(RStrip(val))

\* ';tag=' in line
HasTag(line) == \E i \in 1..Len(line.val) : line.val[i] = ";tag="

\* The text "None": what an f-string makes of a header that was never found.
NoneLine == Line(None, <<>>)
NoneValue == <<None>>

NoHdl == [via_headers |-> <<>>, from_header |-> NoneLine, to_header |-> NoneLine,
          call_id |-> NoneValue, cseq |-> NoneValue, contact |-> NoneLine]

\* The header loop of the handlers (lines 206-218, 281-291, 315-325): Via lines
\* are collected, for the other headers each matching line overwrites the last.
RECURSIVE ParseHeadersFrom(_, _, _)
ParseHeadersFrom(lines, i, h) ==
    IF i > Len(lines) THEN h
    ELSE LET line == lines[i]
             next ==
                IF line.name = "Via:"
                THEN [h EXCEPT !.via_headers = Append(@, line)]
                ELSE IF line.name = "From:" THEN [h EXCEPT !.from_header = line]
                ELSE IF line.name = "To:" THEN [h EXCEPT !.to_header = line]
                ELSE IF line.name = "Call-ID:" THEN [h EXCEPT !.call_id = Strip(line.val)]
                ELSE IF line.name = "CSeq:" THEN [h EXCEPT !.cseq = Strip(line.val)]
                ELSE IF line.name = "Contact:" THEN [h EXCEPT !.contact = line]
                ELSE h
         IN  ParseHeadersFrom(lines, i + 1, next)

ParseHeaders(message) == ParseHeadersFrom(message.lines, 1, NoHdl)

AddToTagNever(to_header, totag) == to_header

AddToTagAlways(to_header, totag) ==
    [to_header EXCEPT !.val = RStrip(@) \o <<";tag=", totag>>]

\* Lines 223-226.
AddToTag(to_header, totag) ==
    IF ~HasTag(to_header)
    THEN [to_header EXCEPT !.val = RStrip(@) \o <<";tag=", totag>>]
    ELSE to_header

OwnContact == Line("Contact:", <<" ", "<sip:extension@local_ip:local_port>">>)

phone_sdp == <<"v=0", "o=", "s=SIP Call", "c=", "t=", "m=", "a=rtpmap:0", "a=rtpmap:8",
               "a=sendrecv">>

ReplyTopVia(status, reason, h, contact, allow, content_type, body) ==
    [status |-> status, reason |-> reason,
     via |-> IF h.via_headers = <<>> THEN <<>> ELSE <<h.via_headers[1]>>,
     from |-> h.from_header,
     to |-> h.to_header, call_id |-> h.call_id, cseq |-> h.cseq, contact |-> contact,
     allow |-> allow, content_type |-> content_type, content_length |-> Len(body),
     body |-> body]

\* The response texts of lines 229-238, 257-267, 294-302 and 328-337.
Reply(status, reason, h, contact, allow, content_type, body) ==
    [status |-> status, reason |-> reason, via |-> h.via_headers, from |-> h.from_header,
     to |-> h.to_header, call_id |-> h.call_id, cseq |-> h.cseq, contact |-> contact,
     allow |-> allow, content_type |-> content_type, content_length |-> Len(body),
     body |-> body]

\* Lines 229-239.
Ringing(h) == Reply(180, "Ringing", h, OwnContact, None, None, <<>>)
\* Lines 257-269.
InviteOk(h) == Reply(200, "OK", h, OwnContact, None, "application/sdp", phone_sdp)
ByeOkSdp(h) == Reply(200, "OK", h, NoneLine, None, "application/sdp", phone_sdp)
\* Lines 294-303.
ByeOk(h) == Reply(200, "OK", h, NoneLine, None, None, <<>>)
\* Lines 328-338.
OptionsOk(h) == Reply(200, "OK", h, NoneLine, "INVITE,ACK,CANCEL,BYE,OPTIONS", None, <<>>)

\* _handle_invite up to its sleep, lines 198-242.
HandleInviteRinging(message) ==
    LET h == ParseHeaders(message)
    IN  IF h.to_header = NoneLine
        \* ';tag=' not in None raises TypeError, caught at line 191
        THEN /\ replies' = <<>> /\ hdl' = NoHdl /\ pc' = "loop"
        ELSE \E rt \in Rand :
             LET h2 == [h EXCEPT !.to_header = AddToTag(@, _generate_tag(rt))]
             IN  /\ replies' = <<Ringing(h2)>>
                 /\ hdl' = h2
                 /\ pc' = "answering"

\* _handle_bye, lines 274-304.
HandleBye(message) ==
    /\ replies' = <<ByeOk(ParseHeaders(message))>>
    /\ hdl' = NoHdl
    /\ pc' = "loop"

\* _handle_options, lines 308-338.
HandleOptions(message) ==
    /\ replies' = <<OptionsOk(ParseHeaders(message))>>
    /\ hdl' = NoHdl
    /\ pc' = "loop"

StartsWith(message, method) == message.kind = "request" /\ message.method = method

\* What the loop receives in the runs that follow the clock.
ClockedDatagrams ==
    {Timeout,
     Request("INVITE", <<Via1, From1, To1, CallId1, CSeq1, Contact1>>),
     Request("BYE", <<Via1, From1, To1Tagged, CallId1, CSeq1>>)}

LoopDatagrams == IF elapsed = NoClock THEN PhoneDatagrams ELSE ClockedDatagrams

\* How long recvfrom of line 177 blocks, in half seconds: the whole timeout
\* of line 176 when it times out, at most that when a datagram arrives.
Waits(message) ==
    IF elapsed = NoClock THEN {0}
    ELSE IF message = Timeout THEN {Ticks(1)}
    ELSE 0..Ticks(1)

ListenAlways ==
    /\ proc = "softphone" /\ pc \in {"loop", "listen"} /\ running
    /\ pc = "loop" => (elapsed = NoClock \/ ~IntervalPassed)
    /\ timeout' = 1
    /\ out' = NoMsg /\ sent' = <<>>
    /\ \E message \in LoopDatagrams :
        /\ rx' = <<message>>
        /\ \E d \in Waits(message) : Elapse(d)
        /\ IF message = Timeout
           THEN /\ replies' = <<>> /\ hdl' = NoHdl /\ pc' = "loop"
           ELSE IF StartsWith(message, "INVITE") THEN HandleInviteRinging(message)
           ELSE IF StartsWith(message, "BYE") THEN HandleBye(message)
           ELSE IF StartsWith(message, "OPTIONS") THEN HandleOptions(message)
           ELSE /\ replies' = <<>> /\ hdl' = NoHdl /\ pc' = "loop"
    /\ UNCHANGED <<proc, tag, call_id, branch, cseq, result, branch_calls, driverVars>>
    /\ UNCHANGED <<running, registered, call_id_counter, auto_answer, reg_ret,
                   reg_call_id>>

\* run(), lines 168-193: one iteration of the loop that does not register:
\* one receive and the dispatch of what came.
Listen ==
    /\ proc = "softphone" /\ pc \in {"loop", "listen"} /\ running
    /\ pc = "loop" => (elapsed = NoClock \/ ~IntervalPassed)
    /\ timeout' = 1
    /\ out' = NoMsg /\ sent' = <<>>
    /\ \E message \in LoopDatagrams :
        /\ rx' = <<message>>
        /\ \E d \in Waits(message) : Elapse(d)
        /\ IF message = Timeout
           THEN /\ replies' = <<>> /\ hdl' = NoHdl /\ pc' = "loop"
           ELSE IF StartsWith(message, "INVITE")
           THEN IF auto_answer
                THEN HandleInviteRinging(message)
                ELSE /\ replies' = <<>> /\ hdl' = NoHdl /\ pc' = "loop"
           ELSE IF StartsWith(message, "BYE") THEN HandleBye(message)
           ELSE IF StartsWith(message, "OPTIONS") THEN HandleOptions(message)
           ELSE /\ replies' = <<>> /\ hdl' = NoHdl /\ pc' = "loop"
    /\ UNCHANGED <<proc, tag, call_id, branch, cseq, result, branch_calls, driverVars>>
    /\ UNCHANGED <<running, registered, call_id_counter, auto_answer, reg_ret,
                   reg_call_id>>

HandleInviteOkTwice ==
    /\ proc = "softphone" /\ pc = "answering"
    /\ replies' = Append(Append(replies, InviteOk(hdl)), InviteOk(hdl))
    /\ hdl' = NoHdl
    /\ pc' = "loop"
    /\ Elapse(1)
    /\ UNCHANGED <<proc, dialogVars, driverVars>>
    /\ UNCHANGED <<running, registered, call_id_counter, timeout, auto_answer, reg_ret,
                   reg_call_id>>

\* _handle_invite after its sleep, lines 244-270.
HandleInviteOk ==
    /\ proc = "softphone" /\ pc = "answering" /\ running
    /\ replies' = Append(replies, InviteOk(hdl))
    /\ hdl' = NoHdl
    /\ pc' = "loop"
    \* line 242: time.sleep(0.5)
    /\ Elapse(1)
    /\ UNCHANGED <<proc, dialogVars, driverVars>>
    /\ UNCHANGED <<running, registered, call_id_counter, timeout, auto_answer, reg_ret,
                   reg_call_id>>

Init ==
    /\ proc \in {"softphone", "test_call"}
    /\ pc = IF proc = "softphone" THEN "run" ELSE "start"
    /\ tag = IF proc = "softphone" THEN _generate_tag(1) ELSE None
    /\ call_id = None /\ branch = None
    /\ cseq = 0
    /\ to_tag = None
    /\ attempt = 0
    /\ result = "None"
    /\ out = NoMsg
    /\ sent = <<>>
    /\ rx = <<>>
    /\ branch_calls = 0
    /\ running = TRUE
    /\ registered = FALSE
    /\ call_id_counter = 0
    /\ timeout = 5
    /\ auto_answer \in (IF proc = "softphone" THEN BOOLEAN ELSE {TRUE})
    /\ reg_ret = None
    /\ hdl = NoHdl
    /\ reg_call_id = None
    /\ elapsed = NoClock
    /\ replies = <<>>

Next ==
    \/ DriverStart
    \/ DriverRecv
    \/ DriverBye
    \/ DriverByeRecv
    \/ RunStart
    \/ Reregister
    \/ RegisterRecv1
    \/ RegisterRecv2
    \/ Listen
    \/ HandleInviteOk

Spec == Init /\ [][Next]_vars

(***************************************************************************)
(* The softphone with its clock: time.time() - last_register is followed   *)
(* in half seconds, and the loop receives ClockedDatagrams.                *)
(***************************************************************************)
InitClocked ==
    /\ proc = "softphone"
    /\ pc = "run"
    /\ tag = _generate_tag(1)
    /\ call_id = None /\ branch = None
    /\ cseq = 0
    /\ to_tag = None
    /\ attempt = 0
    /\ result = "None"
    /\ out = NoMsg
    /\ sent = <<>>
    /\ rx = <<>>
    /\ branch_calls = 0
    /\ running = TRUE
    /\ registered = FALSE
    /\ call_id_counter = 0
    /\ timeout = 5
    /\ auto_answer \in BOOLEAN
    /\ reg_ret = None
    /\ hdl = NoHdl
    /\ reg_call_id = None
    /\ elapsed = 0
    /\ replies = <<>>

NextClocked ==
    \/ RunStart
    \/ Reregister
    \/ RegisterRecv1
    \/ RegisterRecv2
    \/ Listen
    \/ HandleInviteOk

SpecClocked == InitClocked /\ [][NextClocked]_vars

(***************************************************************************)
(* The softphone when the socket fails: sendto raises OSError, or stop()   *)
(* is called from another thread while run() runs.  self.running is false  *)
(* exactly when stop() has closed the socket.                              *)
(***************************************************************************)

\* stop(), lines 340-342, called while run() runs.
Stop ==
    /\ proc = "softphone" /\ running
    /\ pc \in {"reg_wait1", "reg_wait2", "listen", "loop", "answering"}
    /\ running' = FALSE
    /\ UNCHANGED <<proc, pc, dialogVars, driverVars>>
    /\ UNCHANGED <<registered, call_id_counter, timeout, auto_answer, reg_ret, hdl,
                   reg_call_id, elapsed, replies>>

\* run(), lines 168-193, after stop(): the test of line 168 fails; a receive
\* that was blocked, and settimeout on the closed socket, time out or raise
\* OSError, which lines 189-193 take silently, and the test of line 168 fails.
RunExit ==
    /\ proc = "softphone" /\ ~running
    /\ pc \in {"listen", "loop"}
    /\ pc' = "stopped"
    /\ UNCHANGED <<proc, dialogVars, driverVars>>
    /\ UNCHANGED phoneVars

\* _handle_invite after stop(): sendto of line 269 raises OSError on the
\* closed socket; lines 191-193 take it and the test of line 168 fails.
HandlerClosed ==
    /\ proc = "softphone" /\ ~running
    /\ pc = "answering"
    /\ hdl' = NoHdl
    /\ pc' = "stopped"
    /\ UNCHANGED <<proc, dialogVars, driverVars>>
    /\ UNCHANGED <<running, registered, call_id_counter, timeout, auto_answer, reg_ret,
                   reg_call_id, elapsed, replies>>

\* register() after stop(): the receive of line 99 or 142 on the closed
\* socket raises OSError, which line 154 does not catch and run() does not
\* either (lines 163 and 171 are outside its try); or the blocked receive
\* runs into its timeout and register() returns False.
RegisterClosed ==
    /\ proc = "softphone" /\ ~running
    /\ pc \in {"reg_wait1", "reg_wait2"}
    /\ \/ /\ pc' = "crashed" /\ result' = "raised"
          /\ UNCHANGED <<rx, branch, call_id, cseq, branch_calls, registered, reg_ret,
                         elapsed>>
       \/ /\ rx' = Append(rx, Timeout)
          /\ RegisterTimedOut
    /\ UNCHANGED <<proc, tag, out, sent, driverVars>>
    /\ UNCHANGED <<running, call_id_counter, timeout, auto_answer, hdl, reg_call_id,
                   replies>>

\* register(), lines 79-96, when sendto raises OSError: line 96 is outside
\* the try, and lines 163 and 171 are outside run()'s.
RegisterSendFails ==
    /\ proc = "softphone" /\ running
    /\ \/ pc = "run"
       \/ /\ pc = "loop" /\ call_id_counter < MaxRegisters
          /\ elapsed = NoClock \/ IntervalPassed
    /\ call_id_counter' = call_id_counter + 1
    /\ out' = NoMsg /\ sent' = <<>> /\ rx' = <<>> /\ replies' = <<>>
    /\ pc' = "crashed" /\ result' = "raised"
    /\ UNCHANGED <<proc, tag, call_id, branch, cseq, branch_calls, driverVars>>
    /\ UNCHANGED <<running, registered, timeout, auto_answer, reg_ret, hdl,
                   reg_call_id, elapsed>>

\* register(), lines 103-141, when the sendto of line 141 raises OSError:
\* line 154 catches socket.timeout only.
RegisterResendFails ==
    /\ proc = "softphone" /\ pc = "reg_wait1" /\ running
    /\ \E response \in RegisterDatagrams :
        /\ _get_response_code(response) = 401
        /\ _parse_auth(response).nonce # None
        /\ _parse_auth(response).realm # None
        /\ rx' = Append(rx, response)
    /\ pc' = "crashed" /\ result' = "raised"
    /\ UNCHANGED <<proc, tag, call_id, branch, cseq, out, sent, branch_calls, driverVars>>
    /\ UNCHANGED phoneVars

NextFaults ==
    \/ Next
    \/ Stop
    \/ RunExit
    \/ HandlerClosed
    \/ RegisterClosed
    \/ RegisterSendFails
    \/ RegisterResendFails

SpecFaults == Init /\ [][NextFaults]_vars

(***************************************************************************)
(* Properties.                                                             *)
(***************************************************************************)
Last(seq) == seq[Len(seq)]

ViaLines(message) == SelectSeq(message.lines, LAMBDA line : line.name = "Via:")
ToLinesOf(message) == SelectSeq(message.lines, LAMBDA line : line.name = "To:")

\* A 401 whose challenge gives both a realm and a nonce.
Usable401(response) ==
    /\ response.kind = "response" /\ response.code = 401
    /\ \E i \in 1..Len(response.lines) :
          /\ IsAuthenticate(response.lines[i])
          /\ ParamAfter(response.lines[i].val, "realm=") # None
          /\ ParamAfter(response.lines[i].val, "nonce=") # None

\* sent, out and rx describe a register() call that is under way or has just
\* returned.
InRegister ==
    proc = "softphone" /\ sent # <<>> /\ sent[1].method = "REGISTER" /\ rx # <<>>

\* C1: in register(), when the first response is a 401 with a usable challenge,
\* exactly one further REGISTER is sent; it carries an Authorization header, the
\* Call-ID and From tag of the first REGISTER, a CSeq one greater and a branch
\* from a new call of the generator; register() waits once more and ends
\* Registered if that response is 200 and RegistrationFailed otherwise.
C1_RegisterRetry ==
    (InRegister /\ Usable401(rx[1])) =>
        /\ Len(sent) = 2
        /\ sent[2].method = "REGISTER"
        /\ sent[2].auth_name = "Authorization:"
        /\ sent[2].call_id = sent[1].call_id
        /\ sent[2].from_tag = sent[1].from_tag
        /\ sent[2].cseq = sent[1].cseq + 1
        /\ out.branch_gen = 2
        /\ IF pc = "reg_wait2"
           THEN Len(rx) = 1 /\ result = "None"
           ELSE /\ Len(rx) = 2
                /\ pc \in {"loop", "listen"}
                /\ IF rx[2].kind = "response" /\ rx[2].code = 200
                   THEN result = "True" /\ registered
                   ELSE result = "False"

C1_Witness ==
    /\ InRegister /\ Usable401(rx[1])
    /\ Len(rx) = 2 /\ rx[2].kind = "response" /\ rx[2].code = 200
    /\ result = "True"

C1_WitnessFailed ==
    /\ InRegister /\ Usable401(rx[1])
    /\ Len(rx) = 2 /\ rx[2] = Timeout
    /\ result = "False"

IsRetry(m) == m.method \in {"INVITE", "REGISTER"} /\ m.auth_name # None

\* C2: within one dialog (one register() call, one run of the call-test
\* driver) the CSeq numbers of the requests sent, in send order, start at 1 and
\* never decrease, and an authenticated retry's CSeq is one greater than that
\* of the request sent before it, the attempt that was challenged.
C2_CSeqOrder ==
    sent # <<>> =>
        /\ sent[1].cseq = 1
        /\ \A i \in 1..(Len(sent) - 1) :
              /\ sent[i + 1].cseq >= sent[i].cseq
              /\ IsRetry(sent[i + 1]) => sent[i + 1].cseq = sent[i].cseq + 1

C2_Witness ==
    /\ proc = "test_call" /\ Len(sent) = 5
    /\ IsRetry(sent[2]) /\ IsRetry(sent[3])
    /\ sent[4].method = "ACK" /\ sent[5].method = "BYE"

C2_WitnessRegister ==
    /\ proc = "softphone" /\ Len(sent) = 2 /\ IsRetry(sent[2])

\* C3: in one run of the call-test driver every request sent (INVITEs,
\* authenticated resends, ACK, BYE) carries the Call-ID and the From tag of the
\* first INVITE.
C3_DialogIdentity ==
    (proc = "test_call" /\ sent # <<>>) =>
        /\ sent[1].method = "INVITE"
        /\ \A i \in 1..Len(sent) :
              /\ sent[i].call_id = sent[1].call_id
              /\ sent[i].from_tag = sent[1].from_tag

C3_Witness ==
    /\ proc = "test_call" /\ Len(sent) = 4
    /\ IsRetry(sent[2]) /\ sent[3].method = "ACK" /\ sent[4].method = "BYE"

Acks == {i \in 1..Len(sent) : sent[i].method = "ACK"}

\* C4: when the response loop of the call-test driver receives a 200 (after
\* any number of 100/180/183), exactly one ACK is sent in the run, and its CSeq
\* number is that of the INVITE sent last, the one that was answered.
C4_OneAck ==
    proc = "test_call" =>
        /\ Cardinality(Acks) <= 1
        /\ \A i \in Acks :
              /\ i > 1 /\ sent[i - 1].method = "INVITE"
              /\ sent[i].cseq = sent[i - 1].cseq
        /\ (pc \in {"loop", "hold", "bye_wait"} /\ rx # <<>>
                /\ get_response_code(rx[1]) = 200) => Cardinality(Acks) = 1
        /\ result = "True" => Cardinality(Acks) = 1

C4_Witness ==
    /\ proc = "test_call" /\ pc = "hold" /\ attempt = 3
    /\ Len(sent) = 2 /\ sent[2].method = "ACK"
    /\ get_response_code(rx[1]) = 200

\* C5: the To tag of the ACK and of the BYE of the call-test driver is the tag
\* found in the To header of the 200 that answered the INVITE; no ACK or BYE
\* goes out with a To tag that was not taken from that response, in particular
\* not when the 200 has no To tag.
C5_ToTagFromResponse ==
    (proc = "test_call" /\ pc \in {"hold", "bye_wait"}) =>
        \A i \in 1..Len(sent) :
            sent[i].method \in {"ACK", "BYE"} =>
                /\ \E j \in 1..Len(rx[1].lines) :
                      /\ rx[1].lines[j].name = "To:"
                      /\ HasTag(rx[1].lines[j])
                      /\ sent[i].to_tag = ParamAfter(rx[1].lines[j].val, ";tag=")

\* run()'s loop received the INVITE in rx, which has exactly one To header.
HandlingInvite ==
    /\ proc = "softphone" /\ pc \in {"answering", "loop", "listen"} /\ sent = <<>>
    /\ rx # <<>> /\ StartsWith(rx[1], "INVITE") /\ auto_answer
    /\ Len(ToLinesOf(rx[1])) = 1

\* to is line with its trailing blanks dropped and one ;tag= parameter appended.
TagAppended(to, line) ==
    /\ to.name = line.name
    /\ Len(to.val) = Len(RStrip(line.val)) + 2
    /\ SubSeq(to.val, 1, Len(to.val) - 2) = RStrip(line.val)
    /\ to.val[Len(to.val) - 1] = ";tag="
    /\ to.val[Len(to.val)] \in {ToString(r) : r \in Rand}

\* C6: when the softphone (auto-answer on) handles an INVITE whose To header
\* has no tag, it sends a 180 and then a 200, and both carry the same To
\* header, which is the request's To header with one ;tag= parameter appended.
C6_RingingThenOk ==
    (HandlingInvite /\ ~HasTag(ToLinesOf(rx[1])[1])) =>
        /\ pc = "answering" => Len(replies) = 1
        /\ pc # "answering" => Len(replies) = 2 /\ replies[2].status = 200
        /\ replies[1].status = 180
        /\ \A i \in 1..Len(replies) :
              /\ replies[i].to = replies[1].to
              /\ TagAppended(replies[i].to, ToLinesOf(rx[1])[1])

C6_Witness ==
    /\ HandlingInvite /\ ToLinesOf(rx[1])[1] = To1Space
    /\ Len(replies) = 2 /\ replies[2].status = 200

\* C7: when the To header of a handled INVITE already contains ;tag=, the To
\* header of the 180 and of the 200 is the received To header, unchanged.
C7_ExistingTagKept ==
    (HandlingInvite /\ HasTag(ToLinesOf(rx[1])[1])) =>
        /\ replies # <<>>
        /\ \A i \in 1..Len(replies) : replies[i].to = ToLinesOf(rx[1])[1]

C7_Witness ==
    /\ HandlingInvite /\ ToLinesOf(rx[1])[1] = To1Tagged
    /\ Len(replies) = 2 /\ replies[1].status = 180 /\ replies[2].status = 200

\* C8: in every response the softphone sends to an INVITE, BYE or OPTIONS the
\* sequence of Via lines is that of the request: same lines, same order.
C8_ViaEchoed ==
    (proc = "softphone" /\ replies # <<>>) =>
        /\ rx[1].kind = "request" /\ rx[1].method \in {"INVITE", "BYE", "OPTIONS"}
        /\ \A i \in 1..Len(replies) : replies[i].via = ViaLines(rx[1])

C8_Witness ==
    /\ proc = "softphone" /\ Len(replies) = 2
    /\ replies[2].via = <<Via2, Via1>>

C8_WitnessBye ==
    /\ proc = "softphone" /\ Len(replies) = 1 /\ StartsWith(rx[1], "BYE")
    /\ replies[1].via = <<Via1, Via2>>

C8_WitnessOptions ==
    /\ proc = "softphone" /\ Len(replies) = 1 /\ StartsWith(rx[1], "OPTIONS")
    /\ replies[1].via = <<Via1, Via2>>

\* The response in rx made main() resend the INVITE.
JustChallenged ==
    /\ proc = "test_call" /\ pc = "loop" /\ rx # <<>>
    /\ get_response_code(rx[1]) \in {401, 407}
    /\ parse_auth_challenge(rx[1]).nonce # None

\* C9: the INVITE the call-test driver resends after a challenge carries a
\* Proxy-Authorization header when the challenge was a 407 and an
\* Authorization header when it was a 401.
C9_AuthHeaderName ==
    JustChallenged =>
        /\ out.method = "INVITE"
        /\ Last(sent) = Summary(out)
        /\ out.auth.name = IF get_response_code(rx[1]) = 407
                           THEN "Proxy-Authorization:" ELSE "Authorization:"

C9_Witness ==
    JustChallenged /\ get_response_code(rx[1]) = 407
        /\ out.auth.name = "Proxy-Authorization:"

C9_Witness401 ==
    JustChallenged /\ get_response_code(rx[1]) = 401 /\ out.auth.name = "Authorization:"

\* C10: every request resent after a 401/407 challenge (REGISTER in the
\* softphone, INVITE in the call-test driver) carries a branch different from
\* the branch of the request that was challenged.
C10_NewBranch ==
    [][(Len(sent') = Len(sent) + 1 /\ out'.auth.name # None) => out'.branch # out.branch]_vars

\* C11: in one run of the call-test driver at most two INVITEs are sent, the
\* first one and at most one authenticated resend; a second 401/407 does not
\* cause another INVITE.
C11_AtMostTwoInvites ==
    proc = "test_call" => Cardinality(Invites) <= 2

\* sent and rx describe a register() call, under way or over.
RegisterCall == proc = "softphone" /\ sent # <<>> /\ sent[1].method = "REGISTER"
RegisterEnded == RegisterCall /\ pc \notin {"reg_wait1", "reg_wait2"}

\* C12: one register() call sends at most two REGISTERs, receives at most
\* twice, and then ends with a success or a failure result, whatever datagrams
\* and timeouts it receives.
C12_RegisterBounded ==
    RegisterCall =>
        /\ Len(sent) <= 2
        /\ Len(rx) <= 2
        /\ RegisterEnded => result \in {"True", "False"}

\* C13: every REGISTER of one softphone instance, the first registration and
\* the refreshes, carries the same From tag and the same Call-ID.
C13_OneRegistrationIdentity ==
    proc = "softphone" =>
        \A i \in 1..Len(sent) :
            sent[i].method = "REGISTER" =>
                /\ sent[i].from_tag = tag
                /\ sent[i].call_id = reg_call_id

Is200(response) == response.kind = "response" /\ response.code = 200

\* C14: register() reports success if and only if the last response it
\* received has status 200; for any other final status it reports failure.
C14_SuccessIff200 ==
    (RegisterEnded /\ rx # <<>>) =>
        /\ result = "True" <=> Is200(Last(rx))
        /\ (Last(rx).kind = "response" /\ Last(rx).code # 200) => result = "False"

\* C15: when a receive of register() times out (the first one or the one after
\* the authenticated REGISTER), register() returns failure to its caller, does
\* not raise, and has sent no REGISTER after the one whose answer did not come.
C15_TimeoutFails ==
    (InRegister /\ Last(rx) = Timeout) =>
        /\ result = "False"
        /\ pc \in {"loop", "listen"}
        /\ Len(sent) = Len(rx)

C15_Witness ==
    /\ InRegister /\ Len(rx) = 2 /\ Last(rx) = Timeout
    /\ Len(sent) = 2 /\ pc = "listen" /\ result = "False"

C15_WitnessFirst ==
    /\ InRegister /\ rx = <<Timeout>> /\ Len(sent) = 1 /\ result = "False"

Byes == {i \in 1..Len(sent) : sent[i].method = "BYE"}

\* C16: after the ACK the call-test driver sends exactly one BYE, whose CSeq
\* number is the ACK's plus one; it then waits once and ends in success,
\* whatever that wait returns, a timeout included.
C16_OneBye ==
    [][proc = "test_call" =>
          /\ Cardinality(Byes') <= 1
          /\ \A i \in Byes' :
                /\ i > 1 /\ sent'[i - 1].method = "ACK"
                /\ sent'[i].cseq = sent'[i - 1].cseq + 1
          /\ pc = "hold" => (pc' = "bye_wait" /\ Cardinality(Byes') = 1)
          /\ pc = "bye_wait" => (pc' = "done" /\ result' = "True" /\ sent' = sent)]_vars

C16_Witness ==
    /\ proc = "test_call" /\ pc = "done" /\ result = "True"
    /\ Last(sent).method = "BYE" /\ rx = <<Response(481, <<>>)>>

NonAuthFailure(response) ==
    /\ get_response_code(response) >= 400
    /\ get_response_code(response) \notin {401, 407}

OnlyInvites(requests) == \A i \in 1..Len(requests) : requests[i].method = "INVITE"

\* C17: when the response loop of the call-test driver receives a status >= 400
\* other than 401 and 407, the run ends in failure at once: no INVITE, ACK or
\* BYE is sent after that response.
C17_FailureEndsRun ==
    [][(proc = "test_call" /\ pc = "loop" /\ rx' # <<>> /\ NonAuthFailure(rx'[1])) =>
          /\ pc' = "done" /\ result' = "False"
          /\ sent' = sent /\ OnlyInvites(sent')]_vars

C17_Witness ==
    /\ proc = "test_call" /\ pc = "done" /\ result = "False"
    /\ rx = <<Response(403, <<>>)>> /\ attempt = 3 /\ Len(sent) = 2

\* How far main() has come.
Rank ==
    CASE pc = "start" -> 0
      [] pc = "loop" -> 1
      [] pc = "hold" -> 2
      [] pc = "bye_wait" -> 3
      [] OTHER -> 4

\* C18: the call-test driver always terminates: every step takes it forward,
\* the response loop makes at most 20 receive attempts, and when the last of
\* them brings neither a 200 nor a status >= 400 (non-auth) the run ends in
\* failure with no ACK and no BYE sent.
C18_Terminates ==
    [][proc = "test_call" =>
          /\ attempt' + Rank' > attempt + Rank
          /\ attempt' <= max_attempts
          /\ pc' = "loop" => attempt' < max_attempts
          /\ (pc = "loop" /\ attempt' = max_attempts
                /\ ~Is200(rx'[1]) /\ ~NonAuthFailure(rx'[1])) =>
                    (pc' = "done" /\ result' = "False" /\ OnlyInvites(sent'))]_vars

C18_Witness ==
    /\ proc = "test_call" /\ pc = "done" /\ attempt = max_attempts
    /\ result = "False" /\ rx = <<Timeout>> /\ OnlyInvites(sent)

\* INVITE, 200, ACK and BYE have all happened.
Completed ==
    /\ Len(sent) >= 3
    /\ sent[Len(sent)].method = "BYE"
    /\ sent[Len(sent) - 1].method = "ACK"
    /\ sent[Len(sent) - 2].method = "INVITE"

\* C19: the call-test driver exits with code 0 exactly when the INVITE, 200,
\* ACK, BYE sequence completed, and exits non-zero whenever a step of the run
\* timed out or the proxy returned a status >= 400 other than a 401/407.
C19_ExitCode ==
    (proc = "test_call" /\ pc = "done") =>
        /\ ExitCode = 0 <=> Completed
        /\ (rx[1] = Timeout \/ NonAuthFailure(rx[1])) => ExitCode # 0

\* C19, amended: the exit code is 0 exactly when the INVITE, 200, ACK, BYE
\* sequence completed, whatever the wait after the BYE returned; it is non-zero
\* when the response loop ended on a status >= 400 other than 401/407 or after
\* its 20 attempts.
C19_ExitCodeAmended ==
    (proc = "test_call" /\ pc = "done") =>
        /\ ExitCode = 0 <=> Completed
        /\ (~Completed /\ (NonAuthFailure(rx[1]) \/ attempt = max_attempts)) => ExitCode = 1

C19_Witness ==
    /\ proc = "test_call" /\ pc = "done" /\ Completed
    /\ rx = <<Timeout>> /\ ExitCode = 0

C19_WitnessFailure ==
    /\ proc = "test_call" /\ pc = "done" /\ ~Completed
    /\ NonAuthFailure(rx[1]) /\ ExitCode = 1

\* C20: when the call-test driver receives a 401 or 407 whose challenge has no
\* nonce, the run ends in failure: no further request is sent and no further
\* response is waited for.
C20_NoNonceAborts ==
    (/\ proc = "test_call" /\ rx # <<>> /\ ~Completed
     /\ get_response_code(rx[1]) \in {401, 407}
     /\ parse_auth_challenge(rx[1]).nonce = None) =>
        pc = "done" /\ result = "False"

\* The first response to the REGISTER is a 401 whose challenge has a nonce and
\* no realm.
RealmlessChallenge ==
    /\ RegisterCall /\ rx # <<>>
    /\ _get_response_code(rx[1]) = 401
    /\ _parse_auth(rx[1]).nonce # None
    /\ _parse_auth(rx[1]).realm = None

\* C21: a 401 to REGISTER whose challenge has a nonce but no realm is unusable:
\* register() sends no authenticated REGISTER and returns failure to its caller;
\* it does not raise.
C21_RealmlessChallengeFails ==
    RealmlessChallenge =>
        /\ Len(sent) = 1
        /\ pc # "crashed"
        /\ result = "False"

\* C22: while self.running is true nothing the softphone receives (datagrams,
\* response statuses, timeouts) ends run(): it is in a register() call, at the
\* head of its loop, in its receive or in a handler.
C22_LoopNeverEnds ==
    (proc = "softphone" /\ running) =>
        pc \in {"run", "reg_wait1", "reg_wait2", "loop", "listen", "answering"}

LinesNamed(message, name) == SelectSeq(message.lines, LAMBDA line : line.name = name)

\* run()'s loop received a request with this method and has dispatched it.
Handled(method) ==
    proc = "softphone" /\ sent = <<>> /\ rx # <<>> /\ StartsWith(rx[1], method)

C24_OptionsAnswered ==
    [][(proc = "softphone" /\ rx' # <<>> /\ StartsWith(Last(rx'), "OPTIONS")) =>
          /\ Len(replies') = 1
          /\ replies'[1].status = 200
          /\ replies'[1].allow = "INVITE,ACK,CANCEL,BYE,OPTIONS"
          /\ replies'[1].body = <<>>
          /\ UNCHANGED <<registered, tag, call_id_counter, running>>]_vars

Oks == {i \in 1..Len(replies) : replies[i].status = 200}

\* C25: the softphone sends nothing in reply to an ACK (nor to anything that is
\* not an INVITE, BYE or OPTIONS, a timeout of its receive included), and for
\* an INVITE it handles it sends the 200 OK exactly once.
C25_NoReplyToAck ==
    (proc = "softphone" /\ sent = <<>> /\ rx # <<>>) =>
        /\ ~(\E m \in {"INVITE", "BYE", "OPTIONS"} : StartsWith(rx[1], m)) => replies = <<>>
        /\ StartsWith(rx[1], "INVITE") =>
              /\ Cardinality(Oks) <= 1
              /\ (auto_answer /\ ToLinesOf(rx[1]) # <<>> /\ pc # "answering") =>
                    Cardinality(Oks) = 1

C25_Witness ==
    Handled("ACK") /\ replies = <<>> /\ pc = "loop" /\ registered

C25_WitnessInvite ==
    Handled("INVITE") /\ pc = "loop" /\ Cardinality(Oks) = 1 /\ Len(replies) = 2

\* A mandatory header is missing.
Malformed(message) ==
    \E name \in {"From:", "To:", "Call-ID:", "CSeq:"} : LinesNamed(message, name) = <<>>

\* C26: a malformed INVITE, BYE or OPTIONS (a mandatory header From, To,
\* Call-ID or CSeq missing) received by the loop is discarded: no datagram is
\* sent in reply to it.
C26_MalformedDiscarded ==
    (/\ \E m \in {"INVITE", "BYE", "OPTIONS"} : Handled(m)
     /\ Malformed(rx[1])) =>
        replies = <<>>

\* C27: a datagram without a SIP status line received while register() waits is
\* noise: it does not end the registration attempt.
C27_NoiseIgnored ==
    (/\ RegisterCall /\ rx # <<>>
     /\ Last(rx) # Timeout
     /\ _get_response_code(Last(rx)) = NoCode) =>
        ~RegisterEnded

C28_WitnessOk ==
    /\ Handled("INVITE") /\ Len(replies) = 2
    /\ replies[1].content_length = 0 /\ replies[2].content_length = Len(phone_sdp)

\* The digest response that belongs to the values the header a carries.
DigestOf(a, password, method) ==
    LET ha1 == MD5(<<a.username, a.realm, password>>)
        ha2 == MD5(<<method, a.uri>>)
    IN  IF a.qop # None
        THEN MD5(<<ha1, a.nonce, a.nc, a.cnonce, a.qop, ha2>>)
        ELSE MD5(<<ha1, a.nonce, ha2>>)

\* rx[1] is the challenge that out answers.
Challenged == (proc = "softphone" /\ pc = "reg_wait2") \/ JustChallenged

\* C29: in every authenticated request the digest response is
\* H(HA1:nonce:nc:cnonce:qop:HA2) when the challenge has a qop and
\* H(HA1:nonce:HA2) when it has none, over the realm, nonce, uri, nc, cnonce
\* and qop the header carries, which are the challenge's; nc is "00000001";
\* qop, nc and cnonce are in the header exactly when the challenge had a qop.
C29_Digest ==
    out.auth.name # None =>
        LET a == out.auth
            password == IF proc = "softphone" THEN "password" ELSE "CALLER_PASS"
            challenge == parse_auth_challenge(rx[1])
        IN  /\ a.response = DigestOf(a, password, out.method)
            /\ a.qop # None => (a.nc = "00000001" /\ a.cnonce # None)
            /\ a.qop = None => (a.nc = None /\ a.cnonce = None)
            /\ Challenged =>
                  /\ a.realm = challenge.realm
                  /\ a.nonce = challenge.nonce
                  /\ a.qop = challenge.qop

C29_Witness ==
    /\ proc = "softphone" /\ pc = "reg_wait2"
    /\ out.auth.qop = "auth" /\ out.auth.nc = "00000001"
    /\ parse_auth_challenge(rx[1]).qop = "auth"

C29_WitnessLegacy ==
    /\ JustChallenged /\ out.auth.name # None /\ out.auth.qop = None
    /\ out.auth.response = MD5(<<MD5(<<"CALLER_EXT", "r1", "CALLER_PASS">>), "n1",
                                 MD5(<<"INVITE", CalleeURI>>)>>)

\* C30: with auto-answer on, every INVITE (one with a To header) that reaches
\* the socket while run() is running is answered with 180 and then 200, also
\* one that arrives while register() waits for the response to a REGISTER.
C30_InviteAlwaysAnswered ==
    (/\ proc = "softphone" /\ auto_answer /\ running
     /\ rx # <<>> /\ StartsWith(Last(rx), "INVITE")
     /\ ToLinesOf(Last(rx)) # <<>>) =>
        /\ replies # <<>>
        /\ replies[1].status = 180
        /\ pc # "answering" => (Len(replies) = 2 /\ replies[2].status = 200)

\* C31: every wait for the response to a REGISTER, in the first registration
\* and in every refresh, runs under a socket timeout of at least 5 seconds.
C31_RegisterTimeout ==
    (proc = "softphone" /\ pc \in {"reg_wait1", "reg_wait2"}) => timeout >= 5

\* What a response carries for the header name: the line for From and To, the
\* stripped value for Call-ID and CSeq.
FirstOf(message, name) == LinesNamed(message, name)[1]

\* C33: when a request the softphone answers has From, To, Call-ID or CSeq more
\* than once, the response echoes the first occurrence (for the To header of an
\* INVITE: the first occurrence, with the tag the softphone adds).
C33_FirstOccurrence ==
    ((\E m \in {"INVITE", "BYE", "OPTIONS"} : Handled(m)) /\ replies # <<>>) =>
        \A i \in 1..Len(replies) :
            /\ Len(LinesNamed(rx[1], "From:")) > 1 =>
                  replies[i].from = FirstOf(rx[1], "From:")
            /\ Len(LinesNamed(rx[1], "To:")) > 1 =>
                  replies[i].to = AddToTag(FirstOf(rx[1], "To:"), ParamAfter(replies[i].to.val, ";tag="))
            /\ Len(LinesNamed(rx[1], "Call-ID:")) > 1 =>
                  replies[i].call_id = Strip(FirstOf(rx[1], "Call-ID:").val)
            /\ Len(LinesNamed(rx[1], "CSeq:")) > 1 =>
                  replies[i].cseq = Strip(FirstOf(rx[1], "CSeq:").val)

\* INVITEs, then at most one ACK, then at most one BYE.
InOrder(requests) ==
    \A i \in 1..Len(requests) :
        /\ requests[i].method \in {"INVITE", "ACK", "BYE"}
        /\ requests[i].method = "INVITE" => \A j \in 1..i : requests[j].method = "INVITE"
        /\ requests[i].method = "ACK" => (i > 1 /\ requests[i - 1].method = "INVITE")
        /\ requests[i].method = "BYE" =>
              (i > 1 /\ requests[i - 1].method = "ACK" /\ i = Len(requests))

\* C36: the call-test driver sends its requests in a fixed order: the ACK only
\* when a 200 has been received, the BYE only after the ACK, no INVITE after
\* the ACK and nothing after the BYE.
C36_SendOrder ==
    [][proc = "test_call" =>
          /\ InOrder(sent')
          /\ (Len(sent') > Len(sent) /\ Last(sent').method = "ACK") => Is200(rx'[1])
          /\ (sent # <<>> /\ Last(sent).method = "BYE") => sent' = sent]_vars

C36_Witness ==
    /\ proc = "test_call" /\ pc = "done" /\ Len(sent) = 3
    /\ sent[1].method = "INVITE" /\ sent[2].method = "ACK" /\ sent[3].method = "BYE"

\* C37: self.registered is true only while the most recent register() call
\* succeeded: after a register() that returned failure the flag is false.
C37_RegisteredFlag ==
    (proc = "softphone" /\ result = "False") => ~registered

\* C38: when the INVITE just answered is received and handled again, the To
\* header of the new 180 is that of the responses sent before: one To tag for
\* one Call-ID.
C38_StableToTag ==
    [][(/\ Handled("INVITE") /\ replies # <<>>
        /\ rx' = rx /\ replies' # <<>> /\ pc' = "answering") =>
            replies'[1].to = replies[1].to]_vars

CallIdOf(message) ==
    IF LinesNamed(message, "Call-ID:") = <<>> THEN <<>>
    ELSE Strip(FirstOf(message, "Call-ID:").val)

\* The response names a Call-ID, and not the one of the request sent.
Foreign(response, request) ==
    /\ response.kind = "response"
    /\ CallIdOf(response) # <<>>
    /\ CallIdOf(response) # <<request.call_id>>

\* C39: a response is acted on only when it belongs to the request sent: a 200
\* or 401/407 with another Call-ID does not lead to Registered, to an
\* authenticated resend or to an ACK.
C39_ResponseMatching ==
    /\ (RegisterCall /\ rx # <<>> /\ Foreign(Last(rx), sent[1])) =>
          (result # "True" /\ ~registered)
    /\ (proc = "test_call" /\ pc \in {"loop", "hold"} /\ rx # <<>> /\ Foreign(rx[1], sent[1])) =>
          (Acks = {} /\ Len(sent) = 1)

\* C40: with auto-answer disabled, an INVITE the loop receives causes no
\* datagram and changes nothing of the softphone's state; a BYE or an OPTIONS
\* is answered with one 200 all the same, whether or not an INVITE was
\* answered before.
C40_NoAutoAnswer ==
    [][(proc = "softphone" /\ ~auto_answer /\ pc \in {"loop", "listen"}
        /\ sent' = <<>> /\ rx' # <<>>) =>
          /\ StartsWith(rx'[1], "INVITE") =>
                /\ replies' = <<>> /\ pc' = "loop" /\ hdl' = NoHdl
                /\ UNCHANGED <<tag, registered, running, call_id_counter, reg_call_id>>
          /\ (StartsWith(rx'[1], "BYE") \/ StartsWith(rx'[1], "OPTIONS")) =>
                /\ Len(replies') = 1 /\ replies'[1].status = 200
                /\ pc' = "loop"]_vars

C40_Witness ==
    /\ Handled("INVITE") /\ ~auto_answer /\ replies = <<>> /\ pc = "loop" /\ registered

C40_WitnessBye ==
    /\ Handled("BYE") /\ ~auto_answer /\ Len(replies) = 1

\* C34: a failure to send inside register() is reported to the caller as a
\* failed registration: register() returns False, nothing propagates out of
\* it and run() goes on.
C34_SendFailureReported ==
    [][(RegisterSendFails \/ RegisterResendFails) =>
          (result' = "False" /\ pc' \in {"listen", "loop"})]_vars

\* C35: once stop() was called, wherever run() was, run() ends by leaving its
\* loop, never by an exception, and no datagram is sent any more.
C35_CleanStop ==
    [][~running' =>
          /\ pc' # "crashed"
          /\ ~running => (sent' = sent /\ replies' = replies /\ out' = out)]_vars

\* C32: register() is called once when run() starts, and again each time more
\* than 240 seconds have passed since the call before returned, whatever that
\* call returned; the time from one call's return to the next REGISTER stays
\* below the 300 seconds of Expires.
C32_Refresh ==
    [][/\ pc = "run" => pc' = "reg_wait1"
       /\ (pc \in {"reg_wait1", "reg_wait2"} /\ pc' = "listen") => elapsed' = 0
       /\ (pc = "loop" /\ pc' = "reg_wait1") =>
             (elapsed > Ticks(register_interval) /\ elapsed < Ticks(Expires))
       /\ (pc = "loop" /\ elapsed > Ticks(register_interval)
           /\ call_id_counter < MaxRegisters) => pc' = "reg_wait1"
       /\ elapsed' < Ticks(Expires)]_vars

C32_Witness ==
    /\ pc = "reg_wait1" /\ call_id_counter = 2 /\ ~registered
    /\ elapsed > Ticks(register_interval)

C32_WitnessRegistered ==
    /\ pc = "reg_wait1" /\ call_id_counter = 2 /\ registered
    /\ elapsed > Ticks(register_interval)

====
